---- MODULE Spec2Model ----
(***************************************************************************)
(* LedgerLens: receipt ingestion, bill register and bill-wise amount       *)
(* validation, as implemented by the two Streamlit programs of the         *)
(* repository:                                                             *)
(*     milestone-1/app1.py   (receipts table, review shown on screen)      *)
(*     milestone-2/app2.py   (receipts + bill_validation tables)           *)
(* The variable milestone says which of the two programs is running; it    *)
(* never changes.  Definitions ending in 1 model app1.py, those ending in  *)
(* 2 model app2.py.                                                        *)
(*                                                                         *)
(* Streamlit runs the whole script on every interaction of a session: the  *)
(* Upload tab, then the History tab.  A run is modelled as a sequence of   *)
(* steps, one per access to the database, so that the runs of two sessions *)
(* interleave between any two accesses.  Every run opens a connection of   *)
(* its own to the database file.                                           *)
(*                                                                         *)
(* Amounts in the payload and on the page are written in hundredths of a   *)
(* currency unit (9900 is 99.00).  The program computes with them as       *)
(* Python floats, and so does the model: binary64 arithmetic, exactly.     *)
(***************************************************************************)
EXTENDS Integers, Sequences, FiniteSets, Bags, TLC

VARIABLES
    milestone,        \* 1 or 2: which program runs
    receipts,         \* rows of table receipts (a set: ids are distinct)
    seq,              \* AUTOINCREMENT high-water mark of receipts.id
    bill_validation,  \* rows of table bill_validation (a bag of rows)
    write_lock,       \* a connection with an open write transaction holds it
    session,          \* per browser session: where its run of the script stands
    review            \* what the last run of the History tab showed

vars == <<milestone, receipts, seq, bill_validation, write_lock, session, review>>

Sessions == {"s1", "s2"}

\* ------------------------------------------------------------------ bounds
MaxBills == 2      \* rows ever inserted into receipts
NumFiles == 3      \* distinct uploaded byte strings
HashSpace == 2     \* distinct fingerprints they hash to
MaxItems == 2      \* line items of a payload (review specification)
MaxWords == 2      \* words of a merchant name (classifier specification)

\* ------------------------------------------------------- JSON scalar values
\* A value of a numeric field of the extracted JSON object.
Absent == [k |-> "absent", n |-> 0]      \* the key is missing
Null == [k |-> "null", n |-> 0]          \* JSON null, Python None
Text == [k |-> "text", n |-> 0]          \* a non-numeric string such as "abc"
Num(n) == [k |-> "num", n |-> n]         \* a JSON number
NumStr(n) == [k |-> "numstr", n |-> n]   \* a string holding a number, "1.00"

\* dict.get(key, default) and dict.get(key)
Get(v, default) == IF v.k = "absent" THEN default ELSE v
GetNone(v) == Get(v, Null)

\* Python float(v): the number, or an exception (TypeError for None,
\* ValueError for a non-numeric string).  The number is given by the
\* hundredths it is written with; FromCents below makes the float of it.
PyFloat(v) ==
    IF v.k \in {"num", "numstr"} THEN [ok |-> TRUE, v |-> v.n]
    ELSE [ok |-> FALSE, v |-> 0]

safe_float(val) ==
    LET f == PyFloat(val) IN IF f.ok THEN f.v ELSE 0

\* -------------------------------------------------------------- characters
UpperChars ==
    <<"A", "B", "C", "D", "E", "F", "G", "H", "I", "J", "K", "L", "M",
      "N", "O", "P", "Q", "R", "S", "T", "U", "V", "W", "X", "Y", "Z">>
LowerChars ==
    <<"a", "b", "c", "d", "e", "f", "g", "h", "i", "j", "k", "l", "m",
      "n", "o", "p", "q", "r", "s", "t", "u", "v", "w", "x", "y", "z">>

\* str.lower() on a string given as its sequence of characters
LowerChar(c) ==
    IF \E i \in 1..Len(UpperChars) : UpperChars[i] = c
    THEN LowerChars[CHOOSE i \in 1..Len(UpperChars) : UpperChars[i] = c]
    ELSE c
Lower(s) == [i \in 1..Len(s) |-> LowerChar(s[i])]

\* Python's  x in m  for strings: x occurs in m as a contiguous substring
Contains(m, x) ==
    \E o \in 0..(Len(m) - Len(x)) : \A i \in 1..Len(x) : m[o + i] = x[i]

\* any(x in m for x in kws)
AnyIn(m, kws) == \E x \in kws : Contains(m, x)

\* ------------------------------------------------------ category classifier
KwGroceries1 ==
    { <<"g", "r", "o", "c", "e", "r", "y">>,
      <<"m", "a", "r", "t">>,
      <<"s", "u", "p", "e", "r", "m", "a", "r", "k", "e", "t">>,
      <<"b", "a", "s", "k", "e", "t">> }
KwMedical1 ==
    { <<"h", "o", "s", "p", "i", "t", "a", "l">>,
      <<"m", "e", "d", "i", "c", "a", "l">>,
      <<"p", "h", "a", "r", "m", "a", "c", "y">>,
      <<"c", "l", "i", "n", "i", "c">> }
KwRestaurant1 ==
    { <<"h", "o", "t", "e", "l">>,
      <<"r", "e", "s", "t", "a", "u", "r", "a", "n", "t">>,
      <<"c", "a", "f", "e">>,
      <<"f", "o", "o", "d">> }
KwTravel1 ==
    { <<"u", "b", "e", "r">>,
      <<"o", "l", "a">>,
      <<"f", "l", "i", "g", "h", "t">>,
      <<"r", "a", "i", "l">>,
      <<"t", "r", "a", "v", "e", "l">> }
KwUtilities1 ==
    { <<"e", "l", "e", "c", "t", "r", "i", "c", "i", "t", "y">>,
      <<"w", "a", "t", "e", "r">>,
      <<"g", "a", "s">>,
      <<"b", "i", "l", "l">> }
KwGroceries2 ==
    { <<"g", "r", "o", "c", "e", "r", "y">>,
      <<"m", "a", "r", "t">>,
      <<"s", "u", "p", "e", "r", "m", "a", "r", "k", "e", "t">> }
KwMedical2 ==
    { <<"h", "o", "s", "p", "i", "t", "a", "l">>,
      <<"m", "e", "d", "i", "c", "a", "l">>,
      <<"p", "h", "a", "r", "m", "a", "c", "y">> }
KwRestaurant2 ==
    { <<"r", "e", "s", "t", "a", "u", "r", "a", "n", "t">>,
      <<"c", "a", "f", "e">>,
      <<"f", "o", "o", "d">> }
KwTravel2 ==
    { <<"u", "b", "e", "r">>,
      <<"o", "l", "a">>,
      <<"f", "l", "i", "g", "h", "t">>,
      <<"r", "a", "i", "l">> }
KwUtilities2 ==
    { <<"e", "l", "e", "c", "t", "r", "i", "c", "i", "t", "y">>,
      <<"w", "a", "t", "e", "r">>,
      <<"g", "a", "s">> }

\* A merchant value of the payload: the key missing, null, or a string.
MAbsent == [k |-> "absent", s |-> <<>>]
MNull == [k |-> "null", s |-> <<>>]
MStr(s) == [k |-> "str", s |-> s]
Unknown == <<"U", "n", "k", "n", "o", "w", "n">>

\* data.get("merchant", "Unknown")
GetMerchant(m) == IF m.k = "absent" THEN MStr(Unknown) ELSE m

\* not merchant : None and the empty string are falsy
Falsy(m) == m.k = "null" \/ (m.k = "str" /\ m.s = <<>>)

\* The if-chain of classify_category over the five keyword lists.
Chain(m, g, md, r, t, u) ==
    IF AnyIn(m, g) THEN "Groceries"
    ELSE IF AnyIn(m, md) THEN "Medical"
    ELSE IF AnyIn(m, r) THEN "Restaurant"
    ELSE IF AnyIn(m, t) THEN "Travel"
    ELSE IF AnyIn(m, u) THEN "Utilities"
    ELSE "Other"

\* classify_category with a fault: Medical is tested before Groceries.
classify_category1_m(merchant) ==
    IF Falsy(merchant) THEN "Other"
    ELSE LET m == Lower(merchant.s) IN
         IF AnyIn(m, KwMedical1) THEN "Medical"
         ELSE Chain(m, KwGroceries1, KwMedical1, KwRestaurant1,
                    KwTravel1, KwUtilities1)

classify_category1(merchant) ==
    IF Falsy(merchant) THEN "Other"
    ELSE Chain(Lower(merchant.s), KwGroceries1, KwMedical1, KwRestaurant1,
               KwTravel1, KwUtilities1)

classify_category2(merchant) ==
    IF Falsy(merchant) THEN "Other"
    ELSE Chain(Lower(merchant.s), KwGroceries2, KwMedical2, KwRestaurant2,
               KwTravel2, KwUtilities2)

\* ------------------------------------------------------------------- dates
\* A date value of the payload.  A string is described by its format and
\* the numbers written in it (y with four digits, the others with two, the
\* day of the week with one):
\*   "iso"    YYYY-MM-DD              "basic"  YYYYMMDD
\*   "isodt"  YYYY-MM-DDTHH:MM:SS     "isosp"  YYYY-MM-DD HH:MM:SS
\*   "week"   YYYY-Www-D  (m is the week, d the day of the week)
\*   "dmy"    DD/MM/YYYY              "text"   the string N/A
\*   "digits" the digits of a number, as in "0"
DAbsent ==
    [k |-> "absent", fmt |-> "", y |-> 0, m |-> 0, d |-> 0,
     hh |-> 0, mi |-> 0, ss |-> 0]
DNull == [DAbsent EXCEPT !.k = "null"]
DNum == [DAbsent EXCEPT !.k = "num"]       \* a JSON number, 0
DTime(fmt, y, m, d, hh, mi, ss) ==
    [k |-> "str", fmt |-> fmt, y |-> y, m |-> m, d |-> d,
     hh |-> hh, mi |-> mi, ss |-> ss]
DStr(fmt, y, m, d) == DTime(fmt, y, m, d, 0, 0, 0)

IsLeap(y) == (y % 4 = 0 /\ y % 100 # 0) \/ y % 400 = 0
DaysIn(y, m) ==
    IF m = 2 THEN (IF IsLeap(y) THEN 29 ELSE 28)
    ELSE IF m \in {4, 6, 9, 11} THEN 30 ELSE 31
ValidYMD(y, m, d) ==
    y \in 1..9999 /\ m \in 1..12 /\ d \in 1..DaysIn(y, m)
ValidHMS(hh, mi, ss) == hh \in 0..23 /\ mi \in 0..59 /\ ss \in 0..59

\* The proleptic Gregorian ordinal of a day (1 is 0001-01-01) and back.
DaysBeforeYear(y) ==
    (y - 1) * 365 + (y - 1) \div 4 - (y - 1) \div 100 + (y - 1) \div 400
RECURSIVE DaysBeforeMonth(_, _)
DaysBeforeMonth(y, m) ==
    IF m = 1 THEN 0 ELSE DaysBeforeMonth(y, m - 1) + DaysIn(y, m - 1)
Ymd2Ord(y, m, d) == DaysBeforeYear(y) + DaysBeforeMonth(y, m) + d
Ord2Ymd(o, near) ==
    LET y == CHOOSE c \in (near - 1)..(near + 1) :
                 DaysBeforeYear(c) < o /\ o <= DaysBeforeYear(c + 1)
        n == o - DaysBeforeYear(y)
        m == CHOOSE c \in 1..12 :
                 DaysBeforeMonth(y, c) < n
                 /\ n <= DaysBeforeMonth(y, c) + DaysIn(y, c)
    IN  [y |-> y, m |-> m, d |-> n - DaysBeforeMonth(y, m)]

\* ISO week dates: the Monday of week 1, the weeks a year has, and the
\* ordinal of day wd of week w.
IsoWeek1Monday(y) ==
    LET firstday == Ymd2Ord(y, 1, 1)
        firstweekday == (firstday + 6) % 7
    IN  IF firstweekday > 3 THEN firstday - firstweekday + 7
        ELSE firstday - firstweekday
ValidWeek(y, w, wd) ==
    /\ y \in 1..9999
    /\ wd \in 1..7
    /\ \/ w \in 1..52
       \/ w = 53 /\ LET f == Ymd2Ord(y, 1, 1) % 7
                    IN  f = 4 \/ (f = 3 /\ IsLeap(y))
WeekOrd(y, w, wd) == IsoWeek1Monday(y) + (w - 1) * 7 + (wd - 1)

\* datetime.fromisoformat(v).date().isoformat() as of Python 3.11, None
\* when it raises (TypeError for a value that is no string, ValueError for
\* a string it does not accept)
ParseDate(v) ==
    IF v.k # "str" THEN DNull
    ELSE IF v.fmt \in {"iso", "basic"}
    THEN (IF ValidYMD(v.y, v.m, v.d) THEN DStr("iso", v.y, v.m, v.d)
          ELSE DNull)
    ELSE IF v.fmt \in {"isodt", "isosp"}
    THEN (IF ValidYMD(v.y, v.m, v.d) /\ ValidHMS(v.hh, v.mi, v.ss)
          THEN DStr("iso", v.y, v.m, v.d) ELSE DNull)
    ELSE IF v.fmt = "week"
    THEN (IF ValidWeek(v.y, v.m, v.d)
             /\ WeekOrd(v.y, v.m, v.d) <= Ymd2Ord(9999, 12, 31)
          THEN LET c == Ord2Ymd(WeekOrd(v.y, v.m, v.d), v.y)
               IN  DStr("iso", c.y, c.m, c.d)
          ELSE DNull)
    ELSE DNull

\* ----------------------------------------------------------------- payload
TaxKeys == {"gst", "cgst", "sgst", "igst", "other"}

IAbsent == [k |-> "absent", l |-> <<>>]
INull == [k |-> "null", l |-> <<>>]
IList(l) == [k |-> "list", l |-> l]      \* l: sequence of [price |-> value]

TAbsent == [k |-> "absent", o |-> [t \in TaxKeys |-> Absent]]
TNull == [k |-> "null", o |-> [t \in TaxKeys |-> Absent]]
TObj(o) == [k |-> "obj", o |-> o]        \* o[t] = Absent: key t is missing

Payload(merchant, date, total, currency, items, taxes, discount) ==
    [merchant |-> merchant, date |-> date, total |-> total,
     currency |-> currency, items |-> items, taxes |-> taxes,
     discount |-> discount]

\* the JSON object {}
EmptyPayload == Payload(MAbsent, DAbsent, Absent, "absent", IAbsent, TAbsent, Absent)

\* What analyze_receipt returns: None, or a dict.
NoneData == [none |-> TRUE, p |-> EmptyPayload]
Dict(p) == [none |-> FALSE, p |-> p]

\* json.dumps(data) and json.loads(raw_json): the text of the object
JsonDumps(p) == [json |-> p]
JsonLoads(t) == t.json

\* ---------------------------------------------------------------- safe_json
\* The provider's reply is a sequence of pieces of text: "prose" (text
\* without braces), the braces "{" and "}", and "kv" (the text between two
\* braces of a JSON object).
HasTok(text, t) == \E i \in 1..Len(text) : text[i] = t
Index(text, t) ==
    CHOOSE i \in 1..Len(text) :
        text[i] = t /\ \A j \in 1..(i - 1) : text[j] # t
RIndex(text, t) ==
    CHOOSE i \in 1..Len(text) :
        text[i] = t /\ \A j \in (i + 1)..Len(text) : text[j] # t

\* The JSON text of an object, keys in the order of the prompt: its
\* braces, and inside them the braces of every line item and of the taxes.
RECURSIVE ItemsText(_)
ItemsText(n) ==
    IF n = 0 THEN <<>> ELSE <<"{", "kv", "}", "kv">> \o ItemsText(n - 1)
TaxesText(p) ==
    IF p.taxes.k # "obj" THEN <<>>
    ELSE (IF \A t \in TaxKeys : p.taxes.o[t].k = "absent"
          THEN <<"{", "}">> ELSE <<"{", "kv", "}">>)
         \o (IF p.discount.k = "absent" THEN <<>> ELSE <<"kv">>)
ObjText(p) ==
    IF p = EmptyPayload THEN <<"{", "}">>
    ELSE <<"{", "kv">> \o ItemsText(Len(p.items.l)) \o TaxesText(p) \o <<"}">>

\* json.loads of a piece of the reply that starts at the first brace of
\* the reply; obj is the object the provider wrote.
JsonLoadsText(sub, obj) ==
    IF sub = ObjText(obj) THEN [ok |-> TRUE, p |-> obj]
    ELSE IF sub = <<"{", "}">> THEN [ok |-> TRUE, p |-> EmptyPayload]
    ELSE [ok |-> FALSE, p |-> EmptyPayload]

\* text[text.index("{") : text.rindex("}") + 1] parsed; ok is FALSE when
\* index, rindex or json.loads raises.
ParseBraces(text, obj) ==
    IF ~HasTok(text, "{") \/ ~HasTok(text, "}")
    THEN [ok |-> FALSE, p |-> EmptyPayload]
    ELSE JsonLoadsText(SubSeq(text, Index(text, "{"), RIndex(text, "}")), obj)

safe_json1(text, obj) ==
    LET r == ParseBraces(text, obj) IN IF r.ok THEN Dict(r.p) ELSE NoneData

safe_json2(text, obj) ==
    LET r == ParseBraces(text, obj) IN
    IF r.ok THEN Dict(r.p) ELSE Dict(EmptyPayload)

\* The provider call: it raises, or replies with text.
Raised == [raised |-> TRUE, text |-> <<>>, obj |-> EmptyPayload]
Reply(text, obj) == [raised |-> FALSE, text |-> text, obj |-> obj]

\* whether the reply yields a JSON object at all
Extracted(resp) == ~resp.raised /\ ParseBraces(resp.text, resp.obj).ok

analyze_receipt1(resp) ==
    IF resp.raised THEN NoneData ELSE safe_json1(resp.text, resp.obj)

analyze_receipt2(resp) ==
    IF resp.raised THEN Dict(EmptyPayload) ELSE safe_json2(resp.text, resp.obj)

\* not data : None and the empty dict are falsy
NotData(data) == data.none \/ data.p = EmptyPayload

\* ---------------------------------------------------------- receipts table
\* hashlib.md5(file_bytes).hexdigest(): deterministic and many-to-one.
\* Files are numbered; the digest is modelled by the residue of the number.
Files == 0..(NumFiles - 1)
Md5(f) == f % HashSpace

Ids(rows) == {r.id : r \in rows}
RowOf(rows, id) == CHOOSE r \in rows : r.id = id

\* The duplicate check with a fault: it never finds the hash.
IsDuplicate_m(h) == FALSE

\* SELECT 1 FROM receipts WHERE file_hash=?  ... fetchone()
IsDuplicate(h) == \E r \in receipts : r.file_hash = h

\* The table without the UNIQUE constraint.
UniqueViolation_m(h) == FALSE

\* The UNIQUE constraint on receipts.file_hash: the INSERT fails with
\* sqlite3.IntegrityError when a row already holds the hash.
UniqueViolation(h) == \E r \in receipts : r.file_hash = h

\* The row app1 builds from the extracted dict.
Row1(id, p, h) ==
    [id |-> id,
     merchant |-> GetMerchant(p.merchant),
     date |-> ParseDate(p.date),
     total |-> LET f == PyFloat(Get(p.total, Num(0))) IN
               IF f.ok THEN f.v ELSE 0,
     currency |-> IF p.currency = "absent" THEN "" ELSE p.currency,
     category |-> classify_category1(GetMerchant(p.merchant)),
     raw_json |-> JsonDumps(p),
     file_hash |-> h]

\* What SQLite keeps of a value bound to the TEXT column date: a number
\* becomes the text of its digits.
TextAffinity(d) == IF d.k = "num" THEN DStr("digits", 0, 0, 0) ELSE d

\* The row app2 builds: the date is stored as extracted (None when the
\* key is missing).
Row2(id, p, h) ==
    [id |-> id,
     merchant |-> GetMerchant(p.merchant),
     date |-> TextAffinity(IF p.date.k = "absent" THEN DNull ELSE p.date),
     total |-> safe_float(GetNone(p.total)),
     currency |-> IF p.currency = "absent" THEN "" ELSE p.currency,
     category |-> classify_category2(GetMerchant(p.merchant)),
     raw_json |-> JsonDumps(p),
     file_hash |-> h]

\* ------------------------------------------------ binary floating point
\* The program computes with Python floats (IEEE-754 binary64, round to
\* nearest, ties to even).  A float is modelled exactly, as a sign and a
\* magnitude counted in units of 2^-75; the magnitude is a natural number
\* written in base 2^15, least significant digit first, without leading
\* zeros.  Every double from 0.01 up to the millions and every sum,
\* difference and 0.02-fold of such doubles is a whole number of units.
Base == 32768
DigitBits == 15
FracDigits == 5         \* 2^-75 = Base^-5
Mantissa == 53

RECURSIVE Norm(_)
Norm(a) ==
    IF a = <<>> THEN <<>>
    ELSE IF a[Len(a)] = 0 THEN Norm(SubSeq(a, 1, Len(a) - 1)) ELSE a

RECURSIVE ToBig(_)
ToBig(n) == IF n = 0 THEN <<>> ELSE <<n % Base>> \o ToBig(n \div Base)

RECURSIVE ToInt(_)
ToInt(a) == IF a = <<>> THEN 0 ELSE Head(a) + Base * ToInt(Tail(a))

RECURSIVE AddC(_, _, _)
AddC(a, b, c) ==
    IF a = <<>> /\ b = <<>> THEN (IF c = 0 THEN <<>> ELSE <<c>>)
    ELSE LET x == (IF a = <<>> THEN 0 ELSE Head(a))
                  + (IF b = <<>> THEN 0 ELSE Head(b)) + c
         IN  <<x % Base>> \o AddC(IF a = <<>> THEN <<>> ELSE Tail(a),
                                  IF b = <<>> THEN <<>> ELSE Tail(b),
                                  x \div Base)
BAdd(a, b) == AddC(a, b, 0)

\* a - b for a >= b
RECURSIVE SubC(_, _, _)
SubC(a, b, c) ==
    IF a = <<>> THEN <<>>
    ELSE LET x == Head(a) - (IF b = <<>> THEN 0 ELSE Head(b)) - c
         IN  <<x % Base>> \o SubC(Tail(a),
                                  IF b = <<>> THEN <<>> ELSE Tail(b),
                                  IF x < 0 THEN 1 ELSE 0)
BSub(a, b) == Norm(SubC(a, b, 0))

\* -1, 0, 1 as a < b, a = b, a > b
RECURSIVE CmpTop(_, _, _)
CmpTop(a, b, i) ==
    IF i = 0 THEN 0
    ELSE IF a[i] < b[i] THEN -1
    ELSE IF a[i] > b[i] THEN 1
    ELSE CmpTop(a, b, i - 1)
BCmp(a, b) ==
    IF Len(a) < Len(b) THEN -1
    ELSE IF Len(a) > Len(b) THEN 1
    ELSE CmpTop(a, b, Len(a))

RECURSIVE MulC(_, _, _)
MulC(a, k, c) ==
    IF a = <<>> THEN (IF c = 0 THEN <<>> ELSE <<c>>)
    ELSE LET x == Head(a) * k + c
         IN  <<x % Base>> \o MulC(Tail(a), k, x \div Base)

RECURSIVE BMul(_, _)
BMul(a, b) ==
    IF a = <<>> \/ b = <<>> THEN <<>>
    ELSE LET rest == BMul(a, Tail(b))
         IN  BAdd(MulC(a, Head(b), 0),
                  IF rest = <<>> THEN <<>> ELSE <<0>> \o rest)

\* quotient and remainder of a by a divisor below 2^15
RECURSIVE DivSmall(_, _)
DivSmall(a, d) ==
    IF a = <<>> THEN [q |-> <<>>, r |-> 0]
    ELSE LET hi == DivSmall(Tail(a), d)
             cur == hi.r * Base + Head(a)
         IN  [q |-> <<cur \div d>> \o hi.q, r |-> cur % d]

RECURSIVE Bits(_)
Bits(n) == IF n = 0 THEN 0 ELSE 1 + Bits(n \div 2)
BitLen(a) ==
    IF a = <<>> THEN 0 ELSE (Len(a) - 1) * DigitBits + Bits(a[Len(a)])

Bit(a, i) == (a[i \div DigitBits + 1] \div 2^(i % DigitBits)) % 2

\* some bit of a below position p is set
LowBits(a, p) ==
    \/ \E i \in 1..(p \div DigitBits) : a[i] # 0
    \/ a[p \div DigitBits + 1] % 2^(p % DigitBits) # 0

\* a with its s lowest bits cleared; 2^s
ClearLow(a, s) ==
    [i \in 1..Len(a) |->
        IF i <= s \div DigitBits THEN 0
        ELSE IF i = s \div DigitBits + 1
             THEN a[i] - (a[i] % 2^(s % DigitBits))
        ELSE a[i]]
Pow2Big(s) ==
    [i \in 1..(s \div DigitBits + 1) |->
        IF i = s \div DigitBits + 1 THEN 2^(s % DigitBits) ELSE 0]

\* Rounding of an exact result to 53 significant bits, nearest, ties to
\* even.  inexact: the exact result lies above a (by less than one unit).
Round53(a, inexact) ==
    IF BitLen(a) <= Mantissa THEN a
    ELSE LET s == BitLen(a) - Mantissa
             up == /\ Bit(a, s - 1) = 1
                   /\ (inexact \/ LowBits(a, s - 1) \/ Bit(a, s) = 1)
         IN  IF up THEN BAdd(ClearLow(a, s), Pow2Big(s)) ELSE ClearLow(a, s)

FZero == [neg |-> FALSE, mag |-> <<>>]
Float(neg, mag) == IF mag = <<>> THEN FZero ELSE [neg |-> neg, mag |-> mag]

\* float(n / 100) as written in decimal: the double nearest to the number
\* of n hundredths (a JSON number, a numeric string, a REAL column).
FromCents(n) ==
    LET a == [i \in 1..FracDigits |-> 0] \o ToBig(IF n < 0 THEN -n ELSE n)
        qr == DivSmall(a, 100)
    IN  IF n = 0 THEN FZero ELSE Float(n < 0, Round53(Norm(qr.q), qr.r # 0))

FNeg(x) == Float(~x.neg, x.mag)
FAbs(x) == Float(FALSE, x.mag)

\* x + y and x - y
FAdd(x, y) ==
    IF x.neg = y.neg THEN Float(x.neg, Round53(BAdd(x.mag, y.mag), FALSE))
    ELSE IF BCmp(x.mag, y.mag) >= 0
         THEN Float(x.neg, Round53(BSub(x.mag, y.mag), FALSE))
    ELSE Float(y.neg, Round53(BSub(y.mag, x.mag), FALSE))
FSub(x, y) == FAdd(x, FNeg(y))

\* x * y : the exact product counts units of 2^-150
FMul(x, y) ==
    LET p == Round53(BMul(x.mag, y.mag), FALSE)
    IN  Float(x.neg # y.neg, Norm(SubSeq(p, FracDigits + 1, Len(p))))

\* x <= y, x > 0, x == 0
FCmp(x, y) ==
    IF x.neg /\ ~y.neg THEN -1
    ELSE IF ~x.neg /\ y.neg THEN 1
    ELSE IF x.neg THEN BCmp(y.mag, x.mag) ELSE BCmp(x.mag, y.mag)
FLe(x, y) == FCmp(x, y) <= 0
FGt(x, y) == FCmp(x, y) > 0
FMax(x, y) == IF FGt(y, x) THEN y ELSE x

\* f"{x:.2f}": the hundredths nearest to x (ties to even)
ToCents(x) ==
    LET h == MulC(x.mag, 100, 0)
        q == ToInt(SubSeq(h, FracDigits + 1, Len(h)))
        half == FracDigits * DigitBits - 1
        up == /\ Len(h) >= FracDigits
              /\ Bit(h, half) = 1
              /\ (LowBits(h, half) \/ q % 2 = 1)
        c == IF up THEN q + 1 ELSE q
    IN  IF x.neg THEN -c ELSE c

\* ------------------------------------------------------------ reconciliation
\* Program constants of  tolerance = max(2, 0.02 * bill_total) : the floor
\* in currency units and the percentage in hundredths.
ToleranceFloor == 2
TolerancePercent == 2

\* max(2, 0.02 * bill_total)
Tolerance(bill_total) ==
    FMax(FromCents(ToleranceFloor * 100),
         FMul(FromCents(TolerancePercent), bill_total))

\* The verdict as C9 describes it: every negative calculated total fails.
Verdict_neg(bill_total, calculated_total) ==
    IF ~calculated_total.neg /\
       FLe(FAbs(FSub(bill_total, calculated_total)), Tolerance(bill_total))
    THEN "PASSED" ELSE "FAILED"

\* abs(bill_total - calculated_total) <= tolerance
Verdict(bill_total, calculated_total) ==
    IF FLe(FAbs(FSub(bill_total, calculated_total)), Tolerance(bill_total))
    THEN "PASSED" ELSE "FAILED"

Verdicts == {"PASSED", "FAILED"}

\* sum(...) of floats as of Python 3.11: added one by one, left to right
RECURSIVE FSum(_, _)
FSum(acc, q) == IF q = <<>> THEN acc ELSE FSum(FAdd(acc, Head(q)), Tail(q))

\* What a run of the History tab computed; the amounts as the page shows
\* them, in hundredths.
NoReview ==
    [bill_id |-> 0, outcome |-> "none", items_present |-> FALSE,
     subtotal |-> 0, itemized_tax |-> 0, total_tax |-> 0, discount |-> 0,
     calculated_total |-> 0, bill_total |-> 0, tax_inferred |-> FALSE]

\* The run of the History tab ended in an uncaught exception.
Crashed(id) == [NoReview EXCEPT !.bill_id = id, !.outcome = "Error"]

\* app1, "Bill-wise Amount Validation" of one row: float() on the raw
\* values, the fallback tax inference, the verdict.
Reconcile1(row) ==
    LET raw == JsonLoads(row.raw_json)
        bill_total == FromCents(row.total)
        items == raw.items
        truthy == items.k = "list" /\ Len(items.l) > 0
        priceF == [i \in 1..Len(items.l) |->
                      PyFloat(Get(items.l[i].price, Num(0)))]
        itemsOk == truthy => \A i \in 1..Len(items.l) : priceF[i].ok
        subtotal == IF truthy
                    THEN FSum(FZero, [i \in 1..Len(items.l) |->
                                         FromCents(priceF[i].v)])
                    ELSE FZero
        taxF == [t \in TaxKeys |->
                    IF raw.taxes.k = "obj"
                    THEN PyFloat(Get(raw.taxes.o[t], Num(0)))
                    ELSE [ok |-> TRUE, v |-> 0]]
        taxesOk == raw.taxes.k # "null" /\ \A t \in TaxKeys : taxF[t].ok
        itemized == FSum(FromCents(taxF["gst"].v),
                         <<FromCents(taxF["cgst"].v), FromCents(taxF["sgst"].v),
                           FromCents(taxF["igst"].v),
                           FromCents(taxF["other"].v)>>)
        inferred_tax == FSub(bill_total, subtotal)
        infer == /\ itemized = FZero
                 /\ FGt(subtotal, FZero)
                 /\ FGt(inferred_tax, FZero)
        total_tax == IF infer THEN inferred_tax ELSE itemized
        discF == PyFloat(Get(raw.discount, Num(0)))
        discount == FromCents(discF.v)
        calculated_total == FSub(FAdd(subtotal, total_tax), discount)
    IN  IF ~(itemsOk /\ taxesOk /\ discF.ok) THEN Crashed(row.id)
        ELSE [bill_id |-> row.id,
              outcome |-> Verdict(bill_total, calculated_total),
              items_present |-> truthy,
              subtotal |-> ToCents(subtotal),
              itemized_tax |-> ToCents(itemized),
              total_tax |-> ToCents(total_tax),
              discount |-> ToCents(discount),
              calculated_total |-> ToCents(calculated_total),
              bill_total |-> ToCents(bill_total), tax_inferred |-> infer]

\* app2, validation of one row: safe_float on every value, the sum of all
\* values of the taxes object (its keys in the order of the prompt), no
\* tax inference.
Reconcile2(row) ==
    LET raw == JsonLoads(row.raw_json)
        bill_total == FromCents(safe_float(Num(row.total)))
        items == raw.items
        itemsOk == items.k # "null"
        subtotal == FSum(FZero, [i \in 1..Len(items.l) |->
                        FromCents(safe_float(GetNone(items.l[i].price)))])
        taxesOk == raw.taxes.k # "null"
        taxV == [t \in TaxKeys |->
                    IF raw.taxes.k = "obj" /\ raw.taxes.o[t].k # "absent"
                    THEN FromCents(safe_float(raw.taxes.o[t])) ELSE FZero]
        total_tax == FSum(FZero, <<taxV["gst"], taxV["cgst"], taxV["sgst"],
                                   taxV["igst"], taxV["other"]>>)
        discount == FromCents(safe_float(GetNone(raw.discount)))
        calculated_total == FSub(FAdd(subtotal, total_tax), discount)
    IN  IF ~(itemsOk /\ taxesOk) THEN Crashed(row.id)
        ELSE [bill_id |-> row.id,
              outcome |-> Verdict(bill_total, calculated_total),
              items_present |-> Len(items.l) > 0,
              subtotal |-> ToCents(subtotal),
              itemized_tax |-> ToCents(total_tax),
              total_tax |-> ToCents(total_tax),
              discount |-> ToCents(discount),
              calculated_total |-> ToCents(calculated_total),
              bill_total |-> ToCents(bill_total), tax_inferred |-> FALSE]

\* ---------------------------------------------------- bill_validation table
\* The row holds the floats; the model keeps them to the hundredth.
ValidationRow(rv) ==
    [bill_id |-> rv.bill_id, total |-> rv.bill_total,
     calculated_total |-> rv.calculated_total, status |-> rv.outcome]

\* The upsert with a fault: a plain INSERT that keeps the old row.
Upsert_m(tbl, row) == tbl (+) SetToBag({row})

\* INSERT OR REPLACE INTO bill_validation, bill_id being the PRIMARY KEY
Upsert(tbl, row) ==
    LET keep == {v \in DOMAIN tbl : v.bill_id # row.bill_id} IN
    [v \in keep |-> tbl[v]] (+) SetToBag({row})

\* ----------------------------------------------------- runs of the script
\* Every interaction of a browser session runs the script from the top:
\* the Upload tab, then the History tab.  A run is a sequence of steps,
\* one per access to the database, so that the runs of two sessions
\* interleave between any two accesses:
\*     Start      the duplicate check of the uploaded file
\*     Save       "Analyze & Save": the provider call and the INSERT
\*     History    the bill register is read and a bill selected
\*     Validate   the selected row is read and validated
\*     Store2     app2: the verdict is stored
\*     ClearAll1  app1, "Clear All Bills": the table is cleared
\*     Rerun1     app1: the run st.rerun starts after the clearing
\* pc says where the run of a session stands, "idle" between two runs.
\* button says what started the run: "save" (Analyze & Save), "clear"
\* (Clear All Bills), "rerun" (st.rerun) or "none" (any other widget).
\* file_hash is the fingerprint the Upload tab works with; the History tab
\* does not use it, so a run that has left the Upload tab holds NoFile,
\* unless it is going to clear and rerun with the same uploader; a run
\* that ended on a stored fingerprint keeps it with its outcome.
\* extracted says, of a run that has just inserted a row, whether the
\* provider's reply held a JSON object.
\* result is the validation a run of app2 has computed and not yet stored.
NoFile == -1          \* the uploader is empty, or the Upload tab is done

Buttons == {"none", "save", "clear"}

Idle(h, outcome) ==
    [pc |-> "idle", file_hash |-> h, button |-> "none",
     extracted |-> FALSE, bill |-> 0, result |-> NoReview,
     outcome |-> outcome]

Running(pc, h, button, extracted, b) ==
    [pc |-> pc, file_hash |-> h, button |-> button,
     extracted |-> extracted, bill |-> b, result |-> NoReview,
     outcome |-> "none"]

\* A run starts: the uploader holds file f or nothing, and a button was
\* clicked or not.  A file whose fingerprint is stored ends the run
\* (st.error, st.stop); "Analyze & Save" leads to the provider call;
\* otherwise the script goes on to the History tab.
Start(s, f, button) ==
    /\ session[s].pc = "idle"
    /\ button = "save" => (f # NoFile /\ seq < MaxBills)
    /\ button = "clear" => milestone = 1
    /\ session' = [session EXCEPT ![s] =
          IF f = NoFile THEN Running("history", NoFile, button, FALSE, 0)
          ELSE IF IsDuplicate(Md5(f)) THEN Idle(Md5(f), "DuplicateFile")
          ELSE IF button = "save"
          THEN Running("analyze", Md5(f), "save", FALSE, 0)
          ELSE Running("history",
                       IF button = "clear" THEN Md5(f) ELSE NoFile,
                       button, FALSE, 0)]
    /\ UNCHANGED <<milestone, receipts, seq, bill_validation, write_lock,
                   review>>

\* app1, "Analyze & Save": the provider call, the stop when the result is
\* falsy ("AI extraction failed"), the INSERT and commit.  While another
\* connection holds the write lock the INSERT raises
\* sqlite3.OperationalError (database is locked).  A refused INSERT raises
\* sqlite3.IntegrityError: the run ends with the transaction the INSERT
\* began still open, and its connection holds the write lock until it is
\* collected.
Save1(s, resp) ==
    /\ milestone = 1
    /\ session[s].pc = "analyze"
    /\ seq < MaxBills
    /\ LET data == analyze_receipt1(resp)
           h == session[s].file_hash
       IN  IF NotData(data)
           THEN /\ session' = [session EXCEPT ![s] =
                      Idle(NoFile, "ExtractionFailed")]
                /\ UNCHANGED <<receipts, seq, write_lock>>
           ELSE IF write_lock
           THEN /\ session' = [session EXCEPT ![s] = Idle(NoFile, "Error")]
                /\ UNCHANGED <<receipts, seq, write_lock>>
           ELSE IF UniqueViolation(h)
           THEN /\ session' = [session EXCEPT ![s] =
                      Idle(h, "IntegrityError")]
                /\ write_lock' = TRUE
                /\ UNCHANGED <<receipts, seq>>
           ELSE /\ receipts' = receipts \cup {Row1(seq + 1, data.p, h)}
                /\ seq' = seq + 1
                /\ session' = [session EXCEPT ![s] =
                      Running("history", NoFile, "save", Extracted(resp), 0)]
                /\ UNCHANGED write_lock
    /\ UNCHANGED <<milestone, bill_validation, review>>

\* app2, "Analyze & Save": the provider call, then the INSERT of whatever
\* it returned.
Save2(s, resp) ==
    /\ milestone = 2
    /\ session[s].pc = "analyze"
    /\ seq < MaxBills
    /\ LET data == analyze_receipt2(resp)
           h == session[s].file_hash
       IN  IF write_lock
           THEN /\ session' = [session EXCEPT ![s] = Idle(NoFile, "Error")]
                /\ UNCHANGED <<receipts, seq, write_lock>>
           ELSE IF UniqueViolation(h)
           THEN /\ session' = [session EXCEPT ![s] =
                      Idle(h, "IntegrityError")]
                /\ write_lock' = TRUE
                /\ UNCHANGED <<receipts, seq>>
           ELSE /\ receipts' = receipts \cup {Row2(seq + 1, data.p, h)}
                /\ seq' = seq + 1
                /\ session' = [session EXCEPT ![s] =
                      Running("history", NoFile, "save", Extracted(resp), 0)]
                /\ UNCHANGED write_lock
    /\ UNCHANGED <<milestone, bill_validation, review>>

\* The connection of a run that ended in IntegrityError is collected:
\* closing it rolls its transaction back and frees the write lock.  When
\* that happens is up to the interpreter.
Collect ==
    /\ write_lock
    /\ write_lock' = FALSE
    /\ UNCHANGED <<milestone, receipts, seq, bill_validation, session, review>>

\* The History tab: SELECT ... FROM receipts ORDER BY id DESC.  An empty
\* register ends the run (st.info, st.stop).  Otherwise bill b of the list
\* is selected: any bill the user chose, and on the page drawn after a
\* save or a clearing (the list has changed) the first of the list, the
\* newest bill.  (app2's category filter stands at "All".)
History(s, b) ==
    /\ session[s].pc = "history"
    /\ IF receipts = {}
       THEN /\ b = 0
            /\ session' = [session EXCEPT ![s] = Idle(NoFile, "NoBills")]
       ELSE /\ b \in Ids(receipts)
            /\ session[s].button \in {"save", "rerun"}
                  => \A i \in Ids(receipts) : i <= b
            /\ session' = [session EXCEPT ![s] =
                  Running("selected", session[s].file_hash,
                          IF session[s].button = "clear" THEN "clear"
                          ELSE "none", FALSE, b)]
    /\ UNCHANGED <<milestone, receipts, seq, bill_validation, write_lock,
                   review>>

\* app1: SELECT ... WHERE id=? and the validation of the row, shown on the
\* page.  A row that is gone (cleared by another session since the
\* register was read) makes the unpacking of None raise TypeError.  The
\* "Clear All Bills" button is below the verdict: the script reaches it
\* only when the validation ran to the end.
Validate1(s) ==
    /\ milestone = 1
    /\ session[s].pc = "selected"
    /\ review' = IF session[s].bill \in Ids(receipts)
                 THEN Reconcile1(RowOf(receipts, session[s].bill))
                 ELSE Crashed(session[s].bill)
    /\ session' = [session EXCEPT ![s] =
          IF review'.outcome \notin Verdicts THEN Idle(NoFile, "Error")
          ELSE IF session[s].button = "clear"
          THEN Running("clear", session[s].file_hash, "clear", FALSE, 0)
          ELSE Idle(NoFile, "Reviewed")]
    /\ UNCHANGED <<milestone, receipts, seq, bill_validation, write_lock>>

\* app1, "Clear All Bills": DELETE FROM receipts, commit, st.rerun, which
\* starts the script again at once.  The DELETE raises
\* sqlite3.OperationalError while another connection holds the write lock.
ClearAll1(s) ==
    /\ milestone = 1
    /\ session[s].pc = "clear"
    /\ IF write_lock
       THEN /\ session' = [session EXCEPT ![s] = Idle(NoFile, "Error")]
            /\ UNCHANGED receipts
       ELSE /\ receipts' = {}
            /\ session' = [session EXCEPT ![s] =
                  [Running("rerun", session[s].file_hash, "rerun", FALSE, 0)
                      EXCEPT !.outcome = "Cleared"]]
    /\ UNCHANGED <<milestone, seq, bill_validation, write_lock, review>>

\* app1: the run st.rerun starts.  The uploader holds what it held and no
\* button is down: the duplicate check of the file, then the History tab.
Rerun1(s) ==
    /\ milestone = 1
    /\ session[s].pc = "rerun"
    /\ session' = [session EXCEPT ![s] =
          IF session[s].file_hash # NoFile /\ IsDuplicate(session[s].file_hash)
          THEN Idle(session[s].file_hash, "DuplicateFile")
          ELSE Running("history", NoFile, "rerun", FALSE, 0)]
    /\ UNCHANGED <<milestone, receipts, seq, bill_validation, write_lock,
                   review>>

\* app2: SELECT ... WHERE id=? and the validation of the row.  A missing
\* row ends the run ("Bill not found", st.stop); so does an exception.
Validate2(s) ==
    /\ milestone = 2
    /\ session[s].pc = "selected"
    /\ IF session[s].bill \in Ids(receipts)
       THEN LET rv == Reconcile2(RowOf(receipts, session[s].bill)) IN
            IF rv.outcome \in Verdicts
            THEN /\ session' = [session EXCEPT ![s] =
                       [Running("store", NoFile, "none", FALSE,
                                session[s].bill) EXCEPT !.result = rv]]
                 /\ UNCHANGED review
            ELSE /\ session' = [session EXCEPT ![s] = Idle(NoFile, "Error")]
                 /\ review' = rv
       ELSE /\ session' = [session EXCEPT ![s] = Idle(NoFile, "NotFound")]
            /\ UNCHANGED review
    /\ UNCHANGED <<milestone, receipts, seq, bill_validation, write_lock>>

\* app2: INSERT OR REPLACE INTO bill_validation and commit, then the
\* validation summary is drawn.  While another connection holds the write
\* lock the INSERT OR REPLACE raises sqlite3.OperationalError and the page
\* shows no verdict.
Store2(s) ==
    /\ milestone = 2
    /\ session[s].pc = "store"
    /\ IF write_lock
       THEN /\ session' = [session EXCEPT ![s] = Idle(NoFile, "Error")]
            /\ review' = Crashed(session[s].bill)
            /\ UNCHANGED bill_validation
       ELSE /\ bill_validation' =
                  Upsert(bill_validation, ValidationRow(session[s].result))
            /\ review' = session[s].result
            /\ session' = [session EXCEPT ![s] = Idle(NoFile, "Reviewed")]
    /\ UNCHANGED <<milestone, receipts, seq, write_lock>>

\* ------------------------------------------------------------------ inputs
Walmart == <<"W", "a", "l", "m", "a", "r", "t">>
Cafe == <<"C", "a", "f", "e">>
Mart == <<"M", "A", "R", "T">>

Item(v) == [price |-> v]
Taxes(gst, cgst, sgst, igst, other) ==
    TObj([t \in TaxKeys |->
            CASE t = "gst" -> gst [] t = "cgst" -> cgst [] t = "sgst" -> sgst
              [] t = "igst" -> igst [] OTHER -> other])

\* The payloads of the ingestion specification:
\*   a bill of 99.00 with one item of 90.00 and no itemised tax;
\*   a reply with every field missing, null or malformed, the date written
\*   day first.
PGood ==
    Payload(MStr(Walmart), DStr("iso", 2024, 2, 29), Num(9900), "INR",
            IList(<<Item(Num(9000))>>),
            Taxes(Num(0), Num(0), Num(0), Num(0), Num(0)), Num(0))
PBad ==
    Payload(MAbsent, DStr("dmy", 2024, 12, 31), Text, "absent",
            INull, TNull, Null)
IngestPayloads == {PGood, PBad}

\* Replies of the provider that hold no object: prose only; the empty
\* object; braces around text that is not JSON; braces the wrong way
\* round.
PlainTexts ==
    { <<"prose">>,
      <<"{", "}">>,
      <<"{", "prose", "}">>,
      <<"}", "prose", "{">> }

\* Replies of the provider about an object p: the object alone; the
\* object wrapped in prose; the object without its closing brace; the
\* object twice.
TextsOf(p) ==
    { ObjText(p),
      <<"prose">> \o ObjText(p) \o <<"prose">>,
      SubSeq(ObjText(p), 1, Len(ObjText(p)) - 1),
      ObjText(p) \o ObjText(p) }

Responses ==
    {Raised} \cup {Reply(t, EmptyPayload) : t \in PlainTexts}
             \cup UNION {{Reply(t, p) : t \in TextsOf(p)} : p \in IngestPayloads}

\* The stored bills of the review specification.  Among them the bills on
\* the edge of the tolerance (100.00 against 98.00 and 97.99, 100.50
\* against 98.49) and a bill whose items 0.70 and 0.10 add up to its total
\* of 0.80.
ReviewTotals ==
    {Text, Num(0), Num(80), Num(9900), Num(10000), Num(10050), Num(20000)}
ReviewPrices ==
    {Absent, Null, Text, Num(70), Num(9000), Num(9700), Num(9749), NumStr(10)}
MorePrices == {NumStr(10), Num(9749)}
ReviewDiscounts == {Absent, Null, Num(100), Num(20000)}

\* item lists of up to n items: any first price, the others of MorePrices
RECURSIVE Tails(_)
Tails(n) ==
    IF n = 0 THEN {<<>>}
    ELSE LET shorter == Tails(n - 1) IN
         shorter \cup {<<Item(v)>> \o l : v \in MorePrices,
                                          l \in {x \in shorter : Len(x) = n - 1}}
ItemLists(n) ==
    IF n = 0 THEN {<<>>}
    ELSE {<<>>} \cup {<<Item(v)>> \o l : v \in ReviewPrices, l \in Tails(n - 1)}

ReviewItems == {IAbsent, INull} \cup {IList(l) : l \in ItemLists(MaxItems)}
ReviewTaxes ==
    {TAbsent, TNull} \cup
    {Taxes(g, c, Absent, Num(0), Absent) :
        g \in {Absent, Null, Text, Num(0), Num(100)},
        c \in {Absent, Num(50)}}

ReviewPayloads ==
    {Payload(MStr(Walmart), DStr("iso", 2024, 2, 29), t, "INR", i, x, d) :
        t \in ReviewTotals, i \in ReviewItems, x \in ReviewTaxes,
        d \in ReviewDiscounts}

\* The merchant names of the save specification: up to MaxWords words
\* written together.
Words ==
    { <<>>,
      <<"B", "i", "g">>,
      Walmart,
      Mart,
      <<"B", "a", "s", "k", "e", "t">>,
      <<"C", "l", "i", "n", "i", "c">>,
      <<"P", "H", "A", "R", "M", "A", "C", "Y">>,
      <<"H", "o", "t", "e", "l">>,
      Cafe,
      <<"U", "b", "e", "r">>,
      <<"C", "o", "l", "a">>,
      <<"T", "r", "a", "v", "e", "l">>,
      <<"G", "a", "s">>,
      <<"B", "i", "l", "l", "s">>,
      <<"Z", "e", "d">> }

RECURSIVE Names(_)
Names(n) ==
    IF n = 0 THEN {<<>>} ELSE {w \o x : w \in Words, x \in Names(n - 1)}

Merchants == {MAbsent, MNull} \cup {MStr(n) : n \in Names(MaxWords)}

\* The dates of the save specification: days that exist and days that do
\* not, times of day that exist and that do not, in every format.
Days == {<<2024, 2, 29>>, <<2023, 2, 29>>, <<2024, 13, 1>>, <<0, 1, 1>>}
Times == {<<10, 30, 0>>, <<25, 0, 0>>, <<24, 0, 0>>, <<10, 61, 0>>,
          <<23, 59, 60>>}
WeekDays == {<<2024, 9, 4>>, <<2024, 53, 1>>, <<2020, 53, 7>>,
             <<2026, 53, 1>>, <<2024, 0, 1>>, <<2024, 9, 0>>, <<2024, 9, 8>>,
             <<1, 1, 1>>, <<9999, 52, 5>>, <<9999, 52, 7>>}
Dates ==
    {DAbsent, DNull, DNum, DStr("text", 0, 0, 0)}
    \cup {DStr(f, x[1], x[2], x[3]) : f \in {"iso", "basic", "dmy"}, x \in Days}
    \cup {DTime(f, x[1], x[2], x[3], t[1], t[2], t[3]) :
             f \in {"isodt", "isosp"}, x \in Days, t \in Times}
    \cup {DStr("week", x[1], x[2], x[3]) : x \in WeekDays}

SavePayloads ==
    {Payload(m, DAbsent, Num(0), "INR", IAbsent, TAbsent, Absent) :
        m \in Merchants}
    \cup {Payload(MStr(Walmart), d, Num(9900), "INR", IAbsent, TAbsent, Absent) :
             d \in Dates}

\* ------------------------------------------------------------ specifications
\* Runs of two sessions from the empty database.
Init ==
    /\ milestone \in {1, 2}
    /\ receipts = {}
    /\ seq = 0
    /\ bill_validation = EmptyBag
    /\ write_lock = FALSE
    /\ session = [s \in Sessions |-> Idle(NoFile, "none")]
    /\ review = NoReview

Next ==
    \/ \E s \in Sessions, f \in Files \cup {NoFile}, button \in Buttons :
          Start(s, f, button)
    \/ \E s \in Sessions, resp \in Responses : Save1(s, resp)
    \/ \E s \in Sessions, resp \in Responses : Save2(s, resp)
    \/ \E s \in Sessions, b \in 0..MaxBills : History(s, b)
    \/ \E s \in Sessions : Validate1(s)
    \/ \E s \in Sessions : ClearAll1(s)
    \/ \E s \in Sessions : Rerun1(s)
    \/ \E s \in Sessions : Validate2(s)
    \/ \E s \in Sessions : Store2(s)
    \/ Collect

Spec == Init /\ [][Next]_vars

\* One bill is stored; session s1 has read the register and selected it.
InitReview ==
    /\ milestone \in {1, 2}
    /\ \E p \in ReviewPayloads :
          receipts = {IF milestone = 1 THEN Row1(1, p, Md5(0))
                      ELSE Row2(1, p, Md5(0))}
    /\ seq = 1
    /\ bill_validation = EmptyBag
    /\ write_lock = FALSE
    /\ session = [s \in Sessions |->
                     IF s = "s1"
                     THEN Running("selected", NoFile, "none", FALSE, 1)
                     ELSE Idle(NoFile, "none")]
    /\ review = NoReview

NextReview ==
    \/ \E s \in Sessions : Validate1(s)
    \/ \E s \in Sessions : Validate2(s)
    \/ \E s \in Sessions : Store2(s)

SpecReview == InitReview /\ [][NextReview]_vars

\* Session s1 has uploaded a new file and clicked "Analyze & Save".
InitSave ==
    /\ milestone \in {1, 2}
    /\ receipts = {}
    /\ seq = 0
    /\ bill_validation = EmptyBag
    /\ write_lock = FALSE
    /\ session = [s \in Sessions |->
                     IF s = "s1"
                     THEN Running("analyze", Md5(0), "save", FALSE, 0)
                     ELSE Idle(NoFile, "none")]
    /\ review = NoReview

NextSave ==
    \/ \E s \in Sessions, p \in SavePayloads :
          Save1(s, Reply(ObjText(p), p))
    \/ \E s \in Sessions, p \in SavePayloads :
          Save2(s, Reply(ObjText(p), p))

SpecSave == InitSave /\ [][NextSave]_vars

\* ==================================================================== claims

\* C1: in every reachable state (runs of two sessions interleaved at will,
\* clearing included) no two rows of receipts hold the same file_hash.
TheoremC1 ==
    \A r1 \in receipts, r2 \in receipts :
        r1.file_hash = r2.file_hash => r1 = r2

\* The race happened: a session passed the duplicate check and its INSERT
\* was refused because the other session had stored the hash meanwhile.
WitnessC1 ==
    \E s \in Sessions :
        /\ session[s].outcome = "IntegrityError"
        /\ \E r \in receipts : r.file_hash = session[s].file_hash

\* C2: a run that starts with a file whose fingerprint is already stored
\* ends in the duplicate signal and changes nothing in the database, which
\* holds exactly one row with that fingerprint.
TheoremC2 ==
    [][\A s \in Sessions :
          (/\ session[s].pc \in {"idle", "rerun"}
           /\ session'[s] # session[s]
           /\ \E r \in receipts : r.file_hash = session'[s].file_hash)
          => /\ session'[s].outcome = "DuplicateFile"
             /\ session'[s].pc = "idle"
             /\ receipts' = receipts
             /\ seq' = seq
             /\ bill_validation' = bill_validation
             /\ Cardinality({r \in receipts' :
                    r.file_hash = session'[s].file_hash}) = 1]_vars

\* A session was turned away as a duplicate of the one stored row.
WitnessC2 ==
    \E s \in Sessions :
        /\ session[s].outcome = "DuplicateFile"
        /\ Cardinality({r \in receipts :
               r.file_hash = session[s].file_hash}) = 1

\* C3: when the provider fails or its reply holds no JSON object, the
\* ingestion stops there: a step of "Analyze & Save" that changes the
\* receipts table comes from a reply that held a JSON object.
ClaimC3 ==
    [][\A s \in Sessions :
          (/\ session[s].pc = "analyze"
           /\ session'[s] # session[s]
           /\ receipts' # receipts)
          => session'[s].extracted]_vars

\* C4: the verdict of a review is PASSED exactly when
\* |bill total - calculated total| <= max(2, 0.02 * bill total), the bill
\* total being the claimed one; at a bill total of 100.00 a calculated
\* total of 98.00 passes and one of 97.99 fails.
ClaimC4 ==
    review.outcome \in Verdicts =>
        /\ review.outcome = "PASSED" <=>
              LET d == review.bill_total - review.calculated_total
                  twice == 2 * review.bill_total
              IN  100 * (IF d < 0 THEN -d ELSE d)
                     <= (IF twice > 20000 THEN twice ELSE 20000)
        /\ (review.bill_total = 10000 /\ review.calculated_total = 9800)
              => review.outcome = "PASSED"
        /\ (review.bill_total = 10000 /\ review.calculated_total = 9799)
              => review.outcome = "FAILED"

\* C5: tax is inferred exactly when no tax is itemised, the subtotal is
\* positive and the bill total exceeds it; then the tax is their
\* difference and the review is flagged; otherwise the tax is the
\* itemised one, and without items the calculated total is the itemised
\* tax less the discount.
ClaimC5 ==
    review.outcome \in Verdicts =>
        LET infer == /\ review.itemized_tax = 0
                     /\ review.subtotal > 0
                     /\ review.bill_total - review.subtotal > 0
        IN  /\ review.tax_inferred <=> infer
            /\ infer => review.total_tax = review.bill_total - review.subtotal
            /\ ~infer => review.total_tax = review.itemized_tax
            /\ ~review.items_present =>
                  /\ ~review.tax_inferred
                  /\ review.calculated_total =
                        review.itemized_tax - review.discount

\* C6: every review of a stored bill ends with a verdict, never with an
\* error.
ClaimC6 == review.bill_id # 0 => review.outcome \in Verdicts

\* The two parts of C7: the state of the table, and how a step may change it.
InvC7 ==
    /\ \A v \in DOMAIN bill_validation :
          /\ bill_validation[v] = 1
          /\ \A w \in DOMAIN bill_validation : w.bill_id = v.bill_id => w = v
    /\ (milestone = 2 /\ review.outcome \in Verdicts)
          => ValidationRow(review) \in DOMAIN bill_validation

StepC7 ==
    bill_validation' # bill_validation =>
        /\ review'.outcome \in Verdicts
        /\ \A v \in DOMAIN bill_validation : v.bill_id # review'.bill_id
        /\ bill_validation' =
              bill_validation (+) SetToBag({ValidationRow(review')})

\* C7: bill_validation holds at most one row per bill; the row of the
\* bill reviewed last is what that review computed; and the table changes
\* only when a bill gets its first verdict, so that reviewing a bill again
\* leaves the table as it was.
TheoremC7 == [](InvC7) /\ [][StepC7]_vars

\* Both bills carry a verdict, one of them from the review just made.
WitnessC7 ==
    /\ BagCardinality(bill_validation) = 2
    /\ review.outcome \in Verdicts
    /\ \E v \in DOMAIN bill_validation : v.status # review.outcome

\* The priority order and the keyword match that C8 speaks of, stated
\* without the classifier's own operators.
Priority == <<"Groceries", "Medical", "Restaurant", "Travel", "Utilities">>

KeywordsOf(c) ==
    IF milestone = 1
    THEN CASE c = "Groceries" -> KwGroceries1 [] c = "Medical" -> KwMedical1
           [] c = "Restaurant" -> KwRestaurant1 [] c = "Travel" -> KwTravel1
           [] OTHER -> KwUtilities1
    ELSE CASE c = "Groceries" -> KwGroceries2 [] c = "Medical" -> KwMedical2
           [] c = "Restaurant" -> KwRestaurant2 [] c = "Travel" -> KwTravel2
           [] OTHER -> KwUtilities2

SameLetter(a, b) ==
    a = b \/ \E i \in 1..Len(UpperChars) :
                {a, b} = {UpperChars[i], LowerChars[i]}

OccursIn(name, kw) ==
    \E o \in 0..(Len(name) - Len(kw)) :
        \A i \in 1..Len(kw) : SameLetter(name[o + i], kw[i])

Matches(merchant, i) ==
    merchant.k = "str" /\ \E kw \in KeywordsOf(Priority[i]) :
                              OccursIn(merchant.s, kw)

\* C8: the category of a merchant name is the first of Groceries, Medical,
\* Restaurant, Travel, Utilities one of whose keywords occurs in the name,
\* letter case ignored; Other when none does or the name is empty or
\* missing; always one of the six labels.
TheoremC8 ==
    \A r \in receipts :
        /\ r.category \in {"Groceries", "Medical", "Restaurant", "Travel",
                           "Utilities", "Other"}
        /\ \A i \in 1..5 :
              r.category = Priority[i]
                 <=> (Matches(r.merchant, i)
                      /\ \A j \in 1..(i - 1) : ~Matches(r.merchant, j))
        /\ r.category = "Other" <=> \A i \in 1..5 : ~Matches(r.merchant, i)

\* "MARTCafe" holds keywords of Groceries and of Restaurant, in capitals.
WitnessC8 ==
    \E r \in receipts :
        /\ r.merchant = MStr(Mart \o Cafe)
        /\ Matches(r.merchant, 1) /\ Matches(r.merchant, 3)
        /\ r.category = "Groceries"

\* C9 as stated: a negative calculated total always gets FAILED.
ClaimC9 ==
    (review.outcome \in Verdicts /\ review.calculated_total < 0)
        => review.outcome = "FAILED"

\* C9 amended: a negative calculated total is judged like any other: it
\* passes when it lies nearer to the bill total than the tolerance and
\* fails when it lies further from it.
TheoremC9 ==
    (review.outcome \in Verdicts /\ review.calculated_total < 0)
        => LET d == review.bill_total - review.calculated_total
               tol == IF review.bill_total > 10000
                      THEN 2 * review.bill_total ELSE 20000
           IN  /\ 100 * d < tol => review.outcome = "PASSED"
               /\ 100 * d > tol => review.outcome = "FAILED"

\* A bill of 0.00 with a discount of 1.00: -1.00 is within 2.00 of 0.00.
WitnessC9 ==
    /\ review.calculated_total < 0
    /\ review.outcome = "PASSED"

\* A string in an ISO-8601 format that names a day of the calendar.
IsIsoDate(d) ==
    /\ d.k = "str"
    /\ \/ d.fmt \in {"iso", "basic"} /\ ValidYMD(d.y, d.m, d.d)
       \/ /\ d.fmt \in {"isodt", "isosp"}
          /\ ValidYMD(d.y, d.m, d.d) /\ ValidHMS(d.hh, d.mi, d.ss)
       \/ d.fmt = "week" /\ ValidWeek(d.y, d.m, d.d)

\* C10: the date of every stored bill is absent or a valid ISO-8601 date.
ClaimC10 == \A r \in receipts : r.date.k = "null" \/ IsIsoDate(r.date)

====
